---- MODULE Spec2Model ----
(***************************************************************************)
(* A model of updateinv.py: read a capacity from stdin, look a resource    *)
(* provider up by name, read one class of inventory and create or update   *)
(* it when it differs from the observed values.                            *)
(*                                                                         *)
(* The placement service is the environment: it answers every request with *)
(* a status drawn from Statuses and keeps one list of resource providers   *)
(* and one inventory slot (the provider/class pair the arguments name).    *)
(* Text is a sequence of one-character strings.                            *)
(***************************************************************************)
EXTENDS Integers, Sequences, FiniteSets, TLC

\* ------------------------------------------------------------------ bounds
MaxStdinLen == 5

MaxRuns == 2

\* --------------------------------------------------------------- alphabet
Whitespace == {" ", "\n"}

Letters == {"G", "B"}

Digits == {"0", "2", "5"}

Alphabet == Whitespace \cup Letters \cup Digits \cup {"-"}

RECURSIVE Texts(_)
Texts(n) ==
    IF n = 0 THEN {<<>>}
    ELSE LET shorter == Texts(n - 1)
         IN  shorter \cup {Append(t, c) : t \in {u \in shorter : Len(u) = n - 1}, c \in Alphabet}

\* The piped texts the whole-run specification starts from: "20G\n", "5",
\* " 5B", "5G2" (an interior letter) and the empty text.
StdinSamples ==
    { <<"2", "0", "G", "\n">>, <<"5">>, <<" ", "5", "B">>, <<"5", "G", "2">>, <<>> }

\* ------------------------------------------------------- python built-ins
SetMin(S) == CHOOSE x \in S : \A y \in S : x <= y

SetMax(S) == CHOOSE x \in S : \A y \in S : x >= y

\* str.strip(chars): drop the leading and trailing characters that are in chars
Strip(s, chars) ==
    LET keep == {i \in 1..Len(s) : s[i] \notin chars}
    IN  IF keep = {} THEN <<>> ELSE SubSeq(s, SetMin(keep), SetMax(keep))

DigitValue(c) ==
    CASE c = "0" -> 0
      [] c = "2" -> 2
      [] c = "5" -> 5

RECURSIVE DecimalValue(_)
DecimalValue(s) ==
    IF s = <<>> THEN 0
    ELSE 10 * DecimalValue(SubSeq(s, 1, Len(s) - 1)) + DigitValue(s[Len(s)])

\* int(text): surrounding whitespace is skipped, one sign is accepted, the
\* rest must be a non-empty run of digits; anything else is a ValueError.
IntBody(s) == LET t == Strip(s, Whitespace)
              IN  IF t # <<>> /\ t[1] = "-" THEN SubSeq(t, 2, Len(t)) ELSE t

IntNegative(s) == LET t == Strip(s, Whitespace) IN t # <<>> /\ t[1] = "-"

IntOk(s) == IntBody(s) # <<>> /\ \A i \in 1..Len(IntBody(s)) : IntBody(s)[i] \in Digits

IntValue(s) == IF IntNegative(s) THEN 0 - DecimalValue(IntBody(s)) ELSE DecimalValue(IntBody(s))

\* the two strips in the other order: a letter followed by a newline stays
CleanStdinLettersFirst(data) == Strip(Strip(data, Letters), Whitespace)

\* data.strip().strip(string.letters)
CleanStdin(data) == Strip(Strip(data, Whitespace), Letters)

\* ------------------------------------------------------------ the service
Statuses == {200, 201, 302, 404, 409, 500}

\* only server errors raise
RaiseForStatusServerOnly(status) == status >= 500 /\ status < 600

\* requests.Response.raise_for_status raises for 4xx and 5xx only
RaiseForStatus(status) == status >= 400 /\ status < 600

\* the service has carried a write out when it answers 2xx
ServiceStores(status) == status >= 200 /\ status < 300

None == [none |-> TRUE]

Names == {"myrp4"}

Classes == {"DISK_GB", "VCPU"}

Reserveds == {0, 2}

Provider(n, u, g) == [name |-> n, uuid |-> u, generation |-> g]

ProviderLists ==
    { <<>>,
      <<Provider("myrp4", "U1", 0)>>,
      <<Provider("myrp4", "U1", 7)>>,
      <<Provider("myrp4", "U2", 3), Provider("myrp4", "U1", 7)>> }

InventoryRecords ==
    { [total |-> t, reserved |-> r, resource_provider_generation |-> 3, max_unit |-> 4] :
        t \in {5, 20}, r \in Reserveds }
    \cup
    { [total |-> 20, reserved |-> 2, resource_provider_generation |-> 7] }

\* ------------------------------------------------------------------ state
VARIABLES
    stdin,              \* the text piped in
    args,               \* parsed command line
    svcProviders,       \* service: the providers the name query returns
    svcInventory,       \* service: the inventory record of the class, or None
    pc,                 \* position of run()
    total,              \* run(): total
    resource_provider,  \* run(): resource_provider
    inventory,          \* run(): inventory (the dict object the caller holds)
    fetched,            \* the record as get_inventory received it
    stdout,             \* lines printed
    requests,           \* HTTP exchanges of this run, in order
    events,             \* everything the run did, in order
    error,              \* the exception that ended the run, "none" otherwise
    runNo,              \* which invocation of the program this is
    previous            \* summary of the run before this one, None in the first

vars == <<stdin, args, svcProviders, svcInventory, pc, total, resource_provider,
          inventory, fetched, stdout, requests, events, error, runNo, previous>>

InitRun ==
    /\ pc = "read_stdin"
    /\ total = 0
    /\ resource_provider = None
    /\ inventory = None
    /\ fetched = None
    /\ stdout = <<>>
    /\ requests = <<>>
    /\ events = <<>>
    /\ error = "none"
    /\ runNo = 1
    /\ previous = None

Init ==
    /\ stdin \in StdinSamples
    /\ args \in [resource_provider_name : Names, resource_class : Classes, reserved : Reserveds]
    /\ svcProviders \in ProviderLists
    /\ svcInventory \in InventoryRecords \cup {None}
    /\ InitRun

InitParse ==
    /\ stdin \in Texts(MaxStdinLen)
    /\ args = [resource_provider_name |-> "myrp4", resource_class |-> "DISK_GB", reserved |-> 0]
    /\ svcProviders = <<>>
    /\ svcInventory = None
    /\ InitRun

\* ---------------------------------------------------------------- actions
Raise(kind) ==
    /\ pc' = "error"
    /\ error' = kind

\* _read_stdin_for_total
ReadStdinForTotal ==
    /\ pc = "read_stdin"
    /\ events' = Append(events, "read_stdin")
    /\ \E cleaned \in {CleanStdin(stdin)} :
         IF IntOk(cleaned)
         THEN /\ total' = IntValue(cleaned)
              /\ pc' = "get_resource_provider"
              /\ UNCHANGED error
         ELSE /\ Raise("ParseError")
              /\ UNCHANGED total
    /\ UNCHANGED <<stdin, args, svcProviders, svcInventory, resource_provider, inventory,
                   fetched, stdout, requests, runNo, previous>>

Request(method, target, status, body, reply) ==
    [method |-> method, target |-> target, status |-> status, body |-> body, reply |-> reply]

Json(value) == [json |-> value]

\* the IndexError is not caught
IndexErrorUncaught == "OtherError"

\* the exception get_resource_provider raises when the list has no first element
IndexErrorHandler == "NotFound"

\* get_resource_provider: the service answers with the providers of that name;
\* a body that is not the expected JSON raises something other than IndexError.
GetResourceProvider ==
    /\ pc = "get_resource_provider"
    /\ \E status \in Statuses, bodyOk \in BOOLEAN :
         /\ events' = Append(events, "GET_resource_provider")
         /\ IF status >= 400 /\ RaiseForStatus(status)
            THEN /\ requests' = Append(requests, Request("GET", "resource_providers", status, None, None))
                 /\ Raise("HTTPError")
                 /\ UNCHANGED resource_provider
            ELSE IF ~bodyOk
            THEN /\ requests' = Append(requests, Request("GET", "resource_providers", status, None, None))
                 /\ Raise("OtherError")
                 /\ UNCHANGED resource_provider
            ELSE /\ requests' = Append(requests, Request("GET", "resource_providers", status, None,
                                                         Json(svcProviders)))
                 /\ IF Len(svcProviders) = 0
                    THEN /\ Raise(IndexErrorHandler)
                         /\ UNCHANGED resource_provider
                    ELSE /\ resource_provider' = svcProviders[1]
                         /\ pc' = "get_inventory"
                         /\ UNCHANGED error
    /\ UNCHANGED <<stdin, args, svcProviders, svcInventory, total, inventory, fetched,
                   stdout, runNo, previous>>

\* what the service may answer to the inventory GET: 404 exactly when it holds
\* no inventory of the class, or any failure
InventoryGetStatuses ==
    IF svcInventory = None THEN {s \in Statuses : s >= 400}
    ELSE Statuses \ {404}

\* 404 gets no special treatment
NotYetInventoryNever(status) == FALSE

\* get_inventory: "We haven't got inventory of this sort yet"
NotYetInventory(status) == status = 404

\* reserved compared with the wrong name
DiffersWrongName(inv, tot, reserved) == inv.total # tot \/ inv.reserved # tot

Differs(inv, tot, reserved) == inv.total # tot \/ inv.reserved # reserved

\* run(): which arm of the if / elif / else of lines 136-147 is taken
Branch(inv, tot, reserved) ==
    IF inv = None THEN "create"
    ELSE IF Differs(inv, tot, reserved) THEN "update"
    ELSE "noop"

\* each arm writes first and prints afterwards
BranchBodyWriteFirst(branch) ==
    CASE branch = "create" -> <<"create_inventory", "print_creating">>
      [] branch = "update" -> <<"update_inventory", "print_updating">>
      [] branch = "noop"   -> <<"print_no_updates">>

\* run(): the statements of each arm, in program order
BranchBody(branch) ==
    CASE branch = "create" -> <<"print_creating", "create_inventory">>
      [] branch = "update" -> <<"print_updating", "update_inventory">>
      [] branch = "noop"   -> <<"print_no_updates">>

Branches == {"create", "update", "noop"}

\* the statement run() executes once statement stmt has returned
After(stmt) ==
    LET b == CHOOSE x \in Branches : \E i \in 1..Len(BranchBody(x)) : BranchBody(x)[i] = stmt
        i == CHOOSE k \in 1..Len(BranchBody(b)) : BranchBody(b)[k] = stmt
    IN  IF i < Len(BranchBody(b)) THEN BranchBody(b)[i + 1] ELSE "done"

\* get_inventory, and the choice of the arm run() makes on its result
GetInventory ==
    /\ pc = "get_inventory"
    /\ \E status \in InventoryGetStatuses, bodyOk \in BOOLEAN :
         /\ events' = Append(events, "GET_inventory")
         /\ IF NotYetInventory(status)
            THEN /\ requests' = Append(requests, Request("GET", "inventory", status, None, None))
                 /\ inventory' = None
                 /\ fetched' = None
                 /\ pc' = BranchBody(Branch(None, total, args.reserved))[1]
                 /\ UNCHANGED error
            ELSE IF status >= 400 /\ RaiseForStatus(status)
            THEN /\ requests' = Append(requests, Request("GET", "inventory", status, None, None))
                 /\ Raise("HTTPError")
                 /\ UNCHANGED <<inventory, fetched>>
            ELSE IF ~bodyOk
            THEN /\ requests' = Append(requests, Request("GET", "inventory", status, None, None))
                 /\ Raise("OtherError")
                 /\ UNCHANGED <<inventory, fetched>>
            ELSE /\ requests' = Append(requests, Request("GET", "inventory", status, None,
                                                         Json(svcInventory)))
                 /\ inventory' = svcInventory
                 /\ fetched' = svcInventory
                 /\ pc' = BranchBody(Branch(svcInventory, total, args.reserved))[1]
                 /\ UNCHANGED error
    /\ UNCHANGED <<stdin, args, svcProviders, svcInventory, total, resource_provider,
                   stdout, runNo, previous>>

Line(msg) ==
    [msg |-> msg, resource_class |-> args.resource_class, total |-> total,
     reserved |-> args.reserved]

\* run(): print('Creating inventory for ...')
AnnounceCreate ==
    /\ pc = "print_creating"
    /\ stdout' = Append(stdout, Line("Creating inventory"))
    /\ events' = Append(events, "print_creating")
    /\ pc' = After("print_creating")
    /\ UNCHANGED <<stdin, args, svcProviders, svcInventory, total, resource_provider,
                   inventory, fetched, requests, error, runNo, previous>>

\* the generation is moved on before it is sent
CreateDataNextGeneration(provider, resource_class, tot, reserved) ==
    [resource_provider_generation |-> provider.generation + 1,
     total |-> tot, reserved |-> reserved, resource_class |-> resource_class]

\* the dict create_inventory posts
CreateData(provider, resource_class, tot, reserved) ==
    [resource_provider_generation |-> provider.generation,
     total |-> tot, reserved |-> reserved, resource_class |-> resource_class]

\* the status test both writers make: resp.status_code != 200, then raise_for_status()
WriteRaises(status) == status # 200 /\ RaiseForStatus(status)

\* the service moves a provider's generation on when it changes its inventory
Bump(providers, uuid) ==
    [i \in 1..Len(providers) |->
        IF providers[i].uuid = uuid
        THEN [providers[i] EXCEPT !.generation = @ + 1]
        ELSE providers[i]]

\* create_inventory
CreateInventory ==
    /\ pc = "create_inventory"
    /\ \E status \in Statuses :
         LET data == CreateData(resource_provider, args.resource_class, total, args.reserved)
         IN  /\ requests' = Append(requests, Request("POST", "inventories", status, data, None))
             /\ events' = Append(events, "POST")
             /\ IF ServiceStores(status)
                THEN /\ svcInventory' = data
                     /\ svcProviders' = Bump(svcProviders, resource_provider.uuid)
                ELSE UNCHANGED <<svcInventory, svcProviders>>
             /\ IF WriteRaises(status)
                THEN Raise("HTTPError")
                ELSE pc' = After("create_inventory") /\ UNCHANGED error
    /\ UNCHANGED <<stdin, args, total, resource_provider, inventory, fetched,
                   stdout, runNo, previous>>

\* run(): print('Updating inventory for ...')
AnnounceUpdate ==
    /\ pc = "print_updating"
    /\ stdout' = Append(stdout, Line("Updating inventory"))
    /\ events' = Append(events, "print_updating")
    /\ pc' = After("print_updating")
    /\ UNCHANGED <<stdin, args, svcProviders, svcInventory, total, resource_provider,
                   inventory, fetched, requests, error, runNo, previous>>

\* a fresh dict of the two values instead of an update of the record
DictUpdateFresh(d, tot, reserved) ==
    [k \in {"total", "reserved"} |-> IF k = "total" THEN tot ELSE reserved]

\* dict.update({'total': total, 'reserved': reserved})
DictUpdate(d, tot, reserved) ==
    [k \in DOMAIN d \cup {"total", "reserved"} |->
        IF k = "total" THEN tot ELSE IF k = "reserved" THEN reserved ELSE d[k]]

\* update_inventory works on a copy
CallerInventoryCopy(before, updated) == before

\* the dict the caller's name is bound to once update_inventory has run line 107:
\* update() changes the object in place, no copy is taken
CallerInventory(before, updated) == updated

\* update_inventory
UpdateInventory ==
    /\ pc = "update_inventory"
    /\ \E status \in Statuses :
         LET data == DictUpdate(inventory, total, args.reserved)
         IN  /\ inventory' = CallerInventory(inventory, data)
             /\ requests' = Append(requests, Request("PUT", "inventory", status, data, None))
             /\ events' = Append(events, "PUT")
             /\ IF ServiceStores(status)
                THEN /\ svcInventory' = data
                     /\ svcProviders' = Bump(svcProviders, resource_provider.uuid)
                ELSE UNCHANGED <<svcInventory, svcProviders>>
             /\ IF WriteRaises(status)
                THEN Raise("HTTPError")
                ELSE pc' = After("update_inventory") /\ UNCHANGED error
    /\ UNCHANGED <<stdin, args, total, resource_provider, fetched,
                   stdout, runNo, previous>>

\* run(): print('No updates required for ...')
NoUpdate ==
    /\ pc = "print_no_updates"
    /\ stdout' = Append(stdout, [msg |-> "No updates required", resource_class |-> args.resource_class])
    /\ events' = Append(events, "print_no_updates")
    /\ pc' = After("print_no_updates")
    /\ UNCHANGED <<stdin, args, svcProviders, svcInventory, total, resource_provider,
                   inventory, fetched, requests, error, runNo, previous>>

Terminated == pc \in {"done", "error"}

WriteMethods == {"POST", "PUT"}

Sent(method) == SelectSeq(requests, LAMBDA r : r.method = method)

Writes(reqs) == SelectSeq(reqs, LAMBDA r : r.method \in WriteMethods)

Printed(msg) == \E i \in 1..Len(stdout) : stdout[i].msg = msg

\* how the process ended: the exit is non-zero exactly when an exception escaped
Outcome ==
    IF pc = "error" THEN "error"
    ELSE IF pc # "done" THEN "running"
    ELSE IF Len(Sent("POST")) > 0 THEN "created"
    ELSE IF Len(Sent("PUT")) > 0 THEN "updated"
    ELSE "noop"

\* the program is invoked again with the same stdin and arguments ("run the
\* script again"); nothing of the earlier process survives but the service
RunAgain ==
    /\ Terminated
    /\ runNo < MaxRuns
    /\ previous' = [outcome |-> Outcome, writes |-> Writes(requests)]
    /\ runNo' = runNo + 1
    /\ pc' = "read_stdin"
    /\ total' = 0
    /\ resource_provider' = None
    /\ inventory' = None
    /\ fetched' = None
    /\ stdout' = <<>>
    /\ requests' = <<>>
    /\ events' = <<>>
    /\ error' = "none"
    /\ UNCHANGED <<stdin, args, svcProviders, svcInventory>>

Next ==
    \/ ReadStdinForTotal
    \/ GetResourceProvider
    \/ GetInventory
    \/ AnnounceCreate
    \/ CreateInventory
    \/ AnnounceUpdate
    \/ UpdateInventory
    \/ NoUpdate
    \/ RunAgain

Spec == Init /\ [][Next]_vars

\* run() is sequential code that blocks only on the service: the statement it
\* is at is executed
RunStep ==
    \/ ReadStdinForTotal
    \/ GetResourceProvider
    \/ GetInventory
    \/ AnnounceCreate
    \/ CreateInventory
    \/ AnnounceUpdate
    \/ UpdateInventory
    \/ NoUpdate

FairSpec == Spec /\ WF_vars(RunStep)

NextParse == ReadStdinForTotal

SpecParse == InitParse /\ [][NextParse]_vars

TypeOK ==
    /\ pc \in {"read_stdin", "get_resource_provider", "get_inventory", "print_creating",
               "create_inventory", "print_updating", "update_inventory", "print_no_updates",
               "done", "error"}
    /\ error \in {"none", "ParseError", "HTTPError", "NotFound", "OtherError"}
    /\ runNo \in 1..MaxRuns
    /\ (previous = None) <=> (runNo = 1)

\* ------------------------------------------------------------- properties
Last(seq) == seq[Len(seq)]

IsGet(r, target) == r.method = "GET" /\ r.target = target

\* the provider lookup of this run succeeded: it handed a provider to run()
LookupSucceeded ==
    /\ Len(requests) >= 1
    /\ IsGet(requests[1], "resource_providers")
    /\ requests[1].reply # None
    /\ Len(requests[1].reply.json) > 0

\* the inventory GET of this run was answered 404
InventoryGet404 ==
    /\ Len(requests) >= 2
    /\ IsGet(requests[2], "inventory")
    /\ requests[2].status = 404

\* C1: when the provider lookup succeeds and the inventory GET is answered 404,
\* get_inventory returns None without raising (the run goes on to the create
\* arm, and only the POST can end it in error), the run issues exactly one POST,
\* to the inventories collection, and never a PUT.
C1_AbsentMeansCreate ==
    (LookupSucceeded /\ InventoryGet404) =>
        /\ inventory = None
        /\ fetched = None
        /\ Len(Sent("PUT")) = 0
        /\ Len(Sent("POST")) <= 1
        /\ (Len(requests) = 2 => pc \in {"print_creating", "create_inventory"} /\ error = "none")
        /\ (Terminated => /\ Len(requests) = 3
                          /\ requests[3].method = "POST"
                          /\ requests[3].target = "inventories")

C1_Witness ==
    /\ LookupSucceeded
    /\ InventoryGet404
    /\ pc = "done"
    /\ Len(Sent("POST")) = 1

\* C2: when the fetched record carries the observed total and the reserved
\* argument, the run makes no write request and ends as a no-op; and a run that
\* follows a run which ended without error and whose write (if it made one) the
\* service carried out makes no write request.
C2_EqualMeansNoWrite ==
    /\ (fetched # None /\ fetched.total = total /\ fetched.reserved = args.reserved) =>
          /\ Writes(requests) = <<>>
          /\ (Terminated => pc = "done" /\ Printed("No updates required"))
    /\ (/\ previous # None
        /\ previous.outcome \in {"created", "updated", "noop"}
        /\ \A i \in 1..Len(previous.writes) : ServiceStores(previous.writes[i].status)) =>
          Writes(requests) = <<>>

C2_Witness ==
    /\ previous # None
    /\ previous.outcome = "created"
    /\ previous.writes[1].status = 200
    /\ pc = "done"
    /\ Printed("No updates required")
    /\ fetched.total = total

\* C3: when a record was fetched and its total or its reserved differs from the
\* observed values, the run issues no POST and exactly one PUT, whose body is the
\* fetched record with total and reserved replaced by the observed values and
\* every other key kept.
C3_DifferMeansOneUpdate ==
    (fetched # None /\ (fetched.total # total \/ fetched.reserved # args.reserved)) =>
        /\ Len(Sent("POST")) = 0
        /\ Len(Sent("PUT")) <= 1
        /\ (Terminated => Len(Sent("PUT")) = 1)
        /\ \A i \in 1..Len(Sent("PUT")) :
              LET body == Sent("PUT")[i].body
              IN  /\ DOMAIN body = DOMAIN fetched
                  /\ body.total = total
                  /\ body.reserved = args.reserved
                  /\ \A k \in DOMAIN fetched \ {"total", "reserved"} : body[k] = fetched[k]

C3_Witness ==
    /\ fetched # None
    /\ "max_unit" \in DOMAIN fetched
    /\ fetched.total = total
    /\ fetched.reserved # args.reserved
    /\ pc = "done"
    /\ Len(Sent("PUT")) = 1

\* the provider GET of this run succeeded with an empty resource_providers array
EmptyLookup ==
    /\ Len(requests) >= 1
    /\ IsGet(requests[1], "resource_providers")
    /\ requests[1].status < 400
    /\ requests[1].reply # None
    /\ Len(requests[1].reply.json) = 0

\* C4: when the provider GET succeeds with an empty resource_providers array,
\* get_resource_provider fails with the not-found error and the run makes no
\* further request.
C4_EmptyLookupFails ==
    EmptyLookup =>
        /\ pc = "error"
        /\ error = "NotFound"
        /\ Len(requests) = 1
        /\ stdout = <<>>

C4_Witness ==
    /\ EmptyLookup
    /\ pc = "error"
    /\ requests[1].status = 200

\* C5: a write (POST or PUT) succeeds only when it is answered 200; answered
\* with any other status the run ends in an error state.
C5_WriteNeeds200 ==
    \A i \in 1..Len(requests) :
        (requests[i].method \in WriteMethods /\ requests[i].status # 200) => pc = "error"

\* C6: the body create_inventory posts has exactly the keys
\* resource_provider_generation, total, reserved and resource_class; the
\* generation is the one the lookup of the same run returned, total is the
\* integer read from stdin, reserved and resource_class are the arguments.
C6_CreateBody ==
    \A i \in 1..Len(requests) :
        requests[i].method = "POST" =>
            LET body == requests[i].body
            IN  /\ DOMAIN body = {"resource_provider_generation", "total", "reserved",
                                  "resource_class"}
                /\ LookupSucceeded
                /\ body.resource_provider_generation = requests[1].reply.json[1].generation
                /\ body.total = total
                /\ IntOk(CleanStdin(stdin))
                /\ body.total = IntValue(CleanStdin(stdin))
                /\ body.reserved = args.reserved
                /\ body.resource_class = args.resource_class

C6_Witness ==
    /\ runNo = 2
    /\ previous.outcome = "error"
    /\ Len(previous.writes) = 1
    /\ ServiceStores(previous.writes[1].status) = FALSE
    /\ Len(Sent("POST")) = 1
    /\ Sent("POST")[1].body.resource_provider_generation = 7
    /\ Sent("POST")[1].body.total = 20
    /\ Sent("POST")[1].body.reserved = 2

AllIn(s, from, to, chars) == \A i \in from..to : s[i] \in chars

\* s is whitespace* letters* digits+ letters* whitespace* with the digits at a..b
HasForm(s, a, b) ==
    /\ a <= b
    /\ AllIn(s, a, b, Digits)
    /\ \E p \in 0..(a - 1) : AllIn(s, 1, p, Whitespace) /\ AllIn(s, p + 1, a - 1, Letters)
    /\ \E q \in b..Len(s) : AllIn(s, b + 1, q, Letters) /\ AllIn(s, q + 1, Len(s), Whitespace)

\* C7: for every stdin text of the form whitespace* letters* digits+ letters*
\* whitespace*, _read_stdin_for_total returns the value of the digit run and
\* does not fail.
C7_ParseForm ==
    \A a \in 1..Len(stdin), b \in 1..Len(stdin) :
        (pc # "read_stdin" /\ HasForm(stdin, a, b)) =>
            /\ pc # "error"
            /\ error = "none"
            /\ total = DecimalValue(SubSeq(stdin, a, b))

C7_Witness ==
    /\ pc = "get_resource_provider"
    /\ Len(stdin) = 5
    /\ stdin[1] \in Whitespace
    /\ stdin[2] \in Letters
    /\ stdin[4] \in Letters
    /\ stdin[5] \in Whitespace
    /\ HasForm(stdin, 3, 3)
    /\ total = 5

Index(seq, e) == CHOOSE i \in 1..Len(seq) : seq[i] = e

Occurs(seq, e) == \E i \in 1..Len(seq) : seq[i] = e

IsPrefix(p, seq) == Len(p) <= Len(seq) /\ \A i \in 1..Len(p) : p[i] = seq[i]

ReadOrder == <<"read_stdin", "GET_resource_provider", "GET_inventory">>

\* C8 as stated: the events of a run come in the order stdin, provider GET,
\* inventory GET, write, status line; a "Creating" or "Updating" line is
\* printed only after its write request, so a run whose write failed has not
\* printed the line.
C8_PrintAfterWrite ==
    /\ (Occurs(events, "print_creating") =>
            Occurs(events, "POST") /\ Index(events, "POST") < Index(events, "print_creating"))
    /\ (Occurs(events, "print_updating") =>
            Occurs(events, "PUT") /\ Index(events, "PUT") < Index(events, "print_updating"))
    /\ ((pc = "error" /\ Writes(requests) # <<>>) =>
            ~Printed("Creating inventory") /\ ~Printed("Updating inventory"))

\* C8 (amended): the events of a run come in the order stdin, provider GET,
\* inventory GET, then the status line, and only then the write request of the
\* arm (none after "No updates required"); a write request is always preceded
\* by its status line, so a run whose write failed has printed the line.
C8_PrintBeforeWrite ==
    /\ \/ IsPrefix(events, ReadOrder \o <<"print_creating", "POST">>)
       \/ IsPrefix(events, ReadOrder \o <<"print_updating", "PUT">>)
       \/ IsPrefix(events, ReadOrder \o <<"print_no_updates">>)
    /\ (Occurs(events, "POST") <=> Len(Sent("POST")) = 1)
    /\ (Occurs(events, "PUT") <=> Len(Sent("PUT")) = 1)
    /\ (Len(Sent("POST")) > 0 => Printed("Creating inventory"))
    /\ (Len(Sent("PUT")) > 0 => Printed("Updating inventory"))
    /\ (pc = "done" => Len(events) >= 4 /\ (Printed("Creating inventory") => Occurs(events, "POST"))
                                        /\ (Printed("Updating inventory") => Occurs(events, "PUT")))

C8_Witness ==
    /\ pc = "error"
    /\ error = "HTTPError"
    /\ Len(requests) = 3
    /\ requests[3].method = "POST"
    /\ requests[3].status = 409
    /\ Printed("Creating inventory")

\* a response that fails the request it answers
Failing(i) ==
    /\ requests[i].status >= 400
    /\ ~(IsGet(requests[i], "inventory") /\ requests[i].status = 404)

OutcomeCreated == pc = "done" /\ Len(Sent("POST")) = 1 /\ Len(Sent("PUT")) = 0

OutcomeUpdated == pc = "done" /\ Len(Sent("PUT")) = 1 /\ Len(Sent("POST")) = 0

OutcomeNoop == pc = "done" /\ Writes(requests) = <<>> /\ Printed("No updates required")

OutcomeError == pc = "error" /\ error # "none"

OutcomeCount ==
    Cardinality({o \in {"created", "updated", "noop", "error"} :
                    \/ o = "created" /\ OutcomeCreated
                    \/ o = "updated" /\ OutcomeUpdated
                    \/ o = "noop" /\ OutcomeNoop
                    \/ o = "error" /\ OutcomeError})

NoRetry ==
    /\ Len(requests) <= 3
    /\ \A i \in 1..Len(requests) :
          /\ i = 1 => IsGet(requests[i], "resource_providers")
          /\ i = 2 => IsGet(requests[i], "inventory")
          /\ i = 3 => requests[i].method \in WriteMethods
          /\ Failing(i) => i = Len(requests) /\ pc = "error" /\ error = "HTTPError"
    /\ (Terminated => OutcomeCount = 1)
    /\ (~Terminated => OutcomeCount = 0)

\* C9: no request is retried: a run issues at most one provider GET, one
\* inventory GET and one write, in that order; a failing response (status >=
\* 400, but for 404 on the inventory GET) is the last exchange of the run, which
\* ends in error; and every run ends, in exactly one of created, updated, no-op
\* and error.
C9_NoRetryAndTerminates ==
    /\ []NoRetry
    /\ [](~Terminated => <>Terminated)

C9_Witness ==
    /\ pc = "error"
    /\ Len(requests) = 3
    /\ requests[3].method = "PUT"
    /\ requests[3].status = 409

\* update_inventory has been called in this run
UpdateCalled == Len(Sent("PUT")) = 1

\* C10 as stated: update_inventory works on a copy; once it has returned or
\* failed, the record the caller holds is the record the service returned.
C10_CallerRecordUnchanged ==
    UpdateCalled => inventory = fetched

\* C10 (amended): update_inventory merges total and reserved into the fetched
\* record itself; once it has returned or failed, the record the caller holds is
\* the body that was PUT: it carries the observed total and reserved, and
\* every other key keeps the value the service returned.
C10_CallerRecordUpdated ==
    UpdateCalled =>
        /\ inventory = Sent("PUT")[1].body
        /\ inventory.total = total
        /\ inventory.reserved = args.reserved
        /\ inventory # fetched
        /\ DOMAIN inventory = DOMAIN fetched
        /\ \A k \in DOMAIN fetched \ {"total", "reserved"} : inventory[k] = fetched[k]

C10_Witness ==
    /\ UpdateCalled
    /\ pc = "error"
    /\ fetched.total = 5
    /\ inventory.total = 20

====
